---- MODULE Spec2Model ----
(***************************************************************************)
(* A model of the relay streaming session (app/routers/stream.py), the     *)
(* NEMSIS extractor and record merge (app/services/nemsis_extractor.py),   *)
(* the trigger gates and downstream actions (core_info_checker.py,         *)
(* gp_caller.py), the post-call webhook (routers/gp_call.py) and the REST  *)
(* status update (routers/cases.py).                                       *)
(*                                                                         *)
(* One case row is modelled.  Every asyncio task of a session is a process *)
(* whose position (pc...) names the await it is suspended in; a step       *)
(* completes that await and runs the synchronous code up to the next one.  *)
(* Task.cancel() throws CancelledError at the await the task is suspended  *)
(* in; a database write that is in progress at that moment may or may not  *)
(* have been applied (aiosqlite queues it to its worker thread, asyncpg    *)
(* cancels the query), so both outcomes are modelled.                      *)
(***************************************************************************)
EXTENDS Integers, Sequences, FiniteSets, TLC

\* ------------------------------------------------------------------ bounds

\* Sessions opened on the case, one after the other.
MaxSessions == 2
\* Transcript callbacks (on_partial / on_committed) delivered to the case.
MaxDeliveries == 2
\* REST status updates and webhook deliveries.
MaxRest == 1
MaxWebhooks == 1
\* Merges applied in a row in the merge specification.
MaxMerges == 2
\* Flushes made by the two sessions of the overlap specification.
MaxFlushes == 3
\* Queues made by subscribe / subscribe_all, and events published, in the
\* bus specifications.
MaxQueues == 3
MaxPublishes == 2

\* stream.py:23
WORD_COUNT_THRESHOLD == 20

\* --------------------------------------------------------------- records

\* Python's None.
None == "<None>"

\* The fields of the record that the session's gates and merges read.  The
\* patient section carries the five core identifiers and the GP contact;
\* procedures stands for the list-valued sections.
PatientFields ==
  {"patient_name_last", "patient_name_first", "patient_address",
   "patient_age", "patient_gender", "gp_name", "gp_phone"}

NEMSISPatientInfo == [f \in PatientFields |-> None]

NEMSISProcedures == [procedures |-> <<>>]

NEMSISRecord == [patient |-> NEMSISPatientInfo, procedures |-> NEMSISProcedures]

\* Keys whose value is a list (isinstance(updated[key], list)).
ListKeys == {"procedures"}

\* Python truthiness of an optional string.
Truthy(v) == v # None /\ v # ""

SeqToSet(s) == {s[i] : i \in DOMAIN s}

\* The list branch of _merge: old items, then the new items not yet present.
RECURSIVE AppendUnique(_, _)
AppendUnique(combined, items) ==
  IF items = <<>> THEN combined
  ELSE AppendUnique(
         IF Head(items) \in SeqToSet(combined) THEN combined
         ELSE Append(combined, Head(items)),
         Tail(items))

\* A list branch that also drops the repeats of the old list.
MergeListDeduplicated(old, updated) == AppendUnique(<<>>, old \o updated)

\* A list branch without the "not in combined" test.
MergeListConcatenated(old, updated) == old \o updated

MergeList(old, updated) == AppendUnique(old, updated)

\* A scalar branch without the "is not None" test.
MergeScalarTakesNull(old, updated) == updated

\* A scalar branch that keeps what the old record holds.
MergeScalarKeepsOld(old, updated) == IF old # None THEN old ELSE updated

\* The scalar branch of _merge.
MergeScalar(old, updated) == IF updated # None THEN updated ELSE old

\* _merge on one section (a dict of scalars and lists).
MergeSection(old, updated) ==
  [key \in DOMAIN old |->
     IF key \in DOMAIN updated
     THEN IF key \in ListKeys
          THEN MergeList(old[key], updated[key])
          ELSE MergeScalar(old[key], updated[key])
     ELSE old[key]]

\* _merge on the record (a dict of sections), then model_validate.
MergeRecords(existing, new) ==
  [sec \in DOMAIN existing |->
     IF sec \in DOMAIN new
     THEN MergeSection(existing[sec], new[sec])
     ELSE existing[sec]]

\* No scalar of r1 that is non-null is null in r2, and no list item of r1 is
\* missing from r2.
NoFactLost(r1, r2) ==
  /\ \A f \in PatientFields :
       r1.patient[f] # None => r2.patient[f] # None
  /\ SeqToSet(r1.procedures.procedures) \subseteq SeqToSet(r2.procedures.procedures)

\* ----------------------------------------------------------------- gates

\* A check that wants both names.
IsCoreInfoCompleteBothNames(record) ==
  LET p == record.patient
  IN /\ Truthy(p.patient_name_first) /\ Truthy(p.patient_name_last)
     /\ Truthy(p.patient_address) /\ Truthy(p.patient_age) /\ Truthy(p.patient_gender)

\* is_core_info_complete (core_info_checker.py:10-17).
IsCoreInfoComplete(record) ==
  LET p == record.patient
      has_name == Truthy(p.patient_name_first) \/ Truthy(p.patient_name_last)
      has_address == Truthy(p.patient_address)
      has_age == Truthy(p.patient_age)
      has_gender == Truthy(p.patient_gender)
  IN has_name /\ has_address /\ has_age /\ has_gender

\* The phone numbers that occur in the model, with their digit counts.
PhoneDigits(phone) ==
  CASE phone = "555-012" -> 7
    [] phone = "555-0123456" -> 10
    [] OTHER -> 0

\* is_gp_call_ready is imported by stream.py and defined nowhere under src/:
\* the provider-contact gate of the specification (section 4.4).
IsGpCallReady(record) ==
  LET p == record.patient
  IN IF Truthy(p.gp_phone) THEN PhoneDigits(p.gp_phone) >= 10
     ELSE Truthy(p.gp_name)

\* ------------------------------------------------------------------ texts

\* A text is a sequence of chunks; a chunk is one utterance delivered by the
\* transcript source.  Joining two texts with " " is concatenation, "" is
\* <<>>, and no chunk has leading or trailing blanks, so .strip() changes
\* nothing.
\*   core  "John Smith, 45 year old male, lives at 742 Evergreen Terrace."
\*   gp    "GP is Dr Jones"
\*   iv    "IV access established in right arm. 12 lead ECG shows ST elevation."
Chunks == {"core", "gp", "iv"}

\* len(chunk.split())
ChunkWords(c) ==
  CASE c = "core" -> 11
    [] c = "gp" -> 4
    [] c = "iv" -> 12

\* len(sentence_end_re.findall(chunk)): the characters . ! ?
ChunkSentenceEndings(c) ==
  CASE c = "core" -> 1
    [] c = "gp" -> 0
    [] c = "iv" -> 2

\* sentence_end_at_end_re.search(chunk): the pattern is compiled from
\* r"[.!?](\"|'|")?\\s*$", in which \\s is a literal backslash followed by
\* the letter s, so only a text whose punctuation is followed by a backslash
\* matches.  No chunk of the model ends that way.
ChunkEndsWithSentence(c) == FALSE

\* gp_name_re.search(chunk): group 2 of the match, or None.  The pattern
\* needs a literal backslash and s after "gp" (r"...\\s+..."), so "GP is Dr
\* Jones" does not match.
ChunkGpNameMatch(c) == None

RECURSIVE SumOver(_, _)
SumOver(text, i) ==
  IF i > Len(text) THEN 0 ELSE ChunkWords(text[i]) + SumOver(text, i + 1)

\* len(text.split())
WordCount(text) == SumOver(text, 1)

RECURSIVE EndingsOver(_, _)
EndingsOver(text, i) ==
  IF i > Len(text) THEN 0
  ELSE ChunkSentenceEndings(text[i]) + EndingsOver(text, i + 1)

_count_sentence_endings(text) == EndingsOver(text, 1)

_ends_with_sentence(text) ==
  text # <<>> /\ ChunkEndsWithSentence(text[Len(text)])

\* full_text as on_partial and _extraction_loop build it.
FullText(accumulated, pending, partial) == accumulated \o pending \o partial

IsPrefix(t, s) == Len(t) <= Len(s) /\ SubSeq(s, 1, Len(t)) = t

IsSuffix(t, s) ==
  Len(t) <= Len(s) /\ SubSeq(s, Len(s) - Len(t) + 1, Len(s)) = t

RECURSIVE Flatten(_)
Flatten(rows) == IF rows = <<>> THEN <<>> ELSE Head(rows) \o Flatten(Tail(rows))

\* ------------------------------------------------------------- extraction

Has(text, c) == c \in SeqToSet(text)

\* _dummy_extract: keyword lookup in transcript.lower().  The keywords the
\* chunks carry: core has john, smith, "45 year old", male and "742 evergreen
\* terrace"; iv has "iv access" and "12 lead"; gp has none.
_dummy_extract(transcript) ==
  [patient |->
     [NEMSISPatientInfo EXCEPT
        !.patient_name_first = IF Has(transcript, "core") THEN "John" ELSE None,
        !.patient_name_last = IF Has(transcript, "core") THEN "Smith" ELSE None,
        !.patient_age = IF Has(transcript, "core") THEN "45" ELSE None,
        !.patient_gender = IF Has(transcript, "core") THEN "Male" ELSE None,
        !.patient_address =
           IF Has(transcript, "core") THEN "742 Evergreen Terrace" ELSE None],
   procedures |->
     [procedures |->
        IF Has(transcript, "iv") THEN <<"IV access - right antecubital", "12-lead ECG">>
        ELSE <<>>]]

\* The phone numbers the language model can report for a GP it heard of:
\* a number cut short and a whole one.
GpPhones == {"555-012", "555-0123456"}

\* What the language model can do with a transcript: answer with everything
\* the transcript says, add a phone number for the GP it names, answer with
\* a record of nulls, or fail (the request or the validation of the reply
\* raises).
LlmAnswers(transcript) ==
  LET heard == [_dummy_extract(transcript) EXCEPT
                  !.patient.gp_name = IF Has(transcript, "gp") THEN "Dr Jones" ELSE None]
  IN { <<"ok", heard>>, <<"ok", NEMSISRecord>>, <<"fail">> }
     \cup (IF Has(transcript, "gp")
           THEN { <<"ok", [heard EXCEPT !.patient.gp_phone = phone]>> : phone \in GpPhones }
           ELSE {})

\* extract_nemsis.  DUMMY_MODE stands for "DUMMY_MODE or not client".
extract_nemsis(DUMMY_MODE, transcript, existing, answer) ==
  IF DUMMY_MODE THEN _dummy_extract(transcript)
  ELSE IF answer[1] = "fail" THEN existing
  ELSE MergeRecords(existing, answer[2])

\* _infer_gp_details: fills gp_name from the transcript when it is unset.
_infer_gp_details(record, text) ==
  IF text = <<>> THEN record
  ELSE IF ~Truthy(record.patient.gp_name)
          /\ \E i \in DOMAIN text : ChunkGpNameMatch(text[i]) # None
       THEN [record EXCEPT !.patient.gp_name =
               ChunkGpNameMatch(text[CHOOSE i \in DOMAIN text :
                                       ChunkGpNameMatch(text[i]) # None])]
       ELSE record

\* model_dump_json / model_validate_json of the cases.nemsis_data column.
model_dump_json(record) == <<"json", record>>

\* A parse that takes whatever record it can read out of the text.
model_validate_json_lenient(data) == data[2]

\* model_validate_json, and "except Exception: NEMSISRecord()" around it
\* (stream.py:339-343): a text that is no dump of a record gives the empty
\* record.
model_validate_json(data) ==
  IF data[1] = "json" THEN data[2] ELSE NEMSISRecord

\* ------------------------------------------------------------------ state

VARIABLES
  DUMMY_MODE,  \* config.DUMMY_MODE or no OpenAI client: fixed for a run
  db,          \* the case row of table cases, and the rows of transcripts
               \* and gp_call_audit that belong to it
  ses,         \* the nonlocal variables of stream_endpoint (one session)
  pc,          \* the await each task of the session is suspended in
  tasks,       \* the background tasks created by asyncio.create_task
  started,     \* how many times each background action was started
  hist,        \* history: what was evaluated, extracted and delivered
  calls,       \* callbacks, REST calls and webhooks delivered so far
  m_hist,      \* merge specification: the records of a chain of merges
  ov,          \* overlap specification: two sessions of one case that flush
  bus,         \* bus specification: a CaseEventBus and the queues it made
  ps,          \* Pub/Sub specification: a PubSubEventBus and its server side
  ci,          \* core-info specification: a record and what the check said
  wh,          \* webhook specification: the deliveries made and their responses
  cg           \* call_gp specification: one call of call_gp and what it did

vars == <<DUMMY_MODE, db, ses, pc, tasks, started, hist, calls, m_hist, ov, bus, ps, ci, wh, cg>>

\* The variables of the side specifications, which the session leaves alone.
side == <<m_hist, ov, bus, ps, ci, wh, cg>>

\* The variables of the session, which the side specifications leave alone.
session == <<DUMMY_MODE, db, ses, pc, tasks, started, hist, calls>>

Sessions == 1 .. MaxSessions

Kinds == {"medical_db", "gp_call"}

\* create_case (cases.py:26-29) and the column defaults of the schema.
NewCase ==
  [status |-> "active",
   full_transcript |-> <<>>,
   nemsis_data |-> model_dump_json(NEMSISRecord),
   core_info_complete |-> 0,
   gp_call_status |-> None,
   medical_db_response |-> None,
   gp_response |-> None,
   transcripts |-> <<>>,
   gp_call_audit |-> <<>>]

\* stream.py:44-60
SessionLocals ==
  [sess |-> 0,
   accumulated_transcript |-> <<>>,
   current_partial |-> <<>>,
   current_nemsis |-> NEMSISRecord,
   core_triggered |-> FALSE,
   gp_call_triggered |-> FALSE,
   extraction_lock |-> "free",
   last_extracted_word_count |-> 0,
   stop_extraction |-> FALSE,
   extract_now |-> FALSE,
   pending_committed |-> <<>>,
   pending_sentence_count |-> 0,
   full_text |-> <<>>]

\* The types of the events a session sends to its client with _safe_send
\* (stream.py:111, 140, 267, 280, 293, 295, 313), but transcript_partial.
\* nemsis_update_core is a nemsis_update whose record satisfies
\* is_core_info_complete.
Events ==
  {"transcript_committed", "nemsis_update", "nemsis_update_core",
   "core_info_complete", "medical_db_complete", "gp_call_triggered",
   "gp_call_complete", "gp_data_received"}

\* Sends are counted up to MaxSent; beyond it the count stays.
MaxSent == 2

NoTask == [pc |-> "none", snapshot |-> NEMSISRecord, outcome |-> None]

NoHistory ==
  [ready |-> [by \in {"loop", "final"} |-> {}],
   covered |-> {},
   committed |-> <<>>,
   rowcount |-> None,
   published |-> {},
   failed |-> FALSE,
   observed |-> FALSE,
   sent |-> [e \in Events |-> 0]]

\* The overlap specification before any session: the transcript columns of
\* the case row, and per session the position of its flush, its
\* accumulated_transcript and the text being flushed.
OvSessions == {1, 2}

OvIdle ==
  [db |-> [full_transcript |-> <<>>, transcripts |-> <<>>],
   s |-> [i \in OvSessions |->
            [pc |-> "none", accumulated_transcript |-> <<>>, text |-> <<>>]],
   flushes |-> 0]

\* Case ids used with the event bus: the ids of two cases (create_case
\* makes them with uuid4, so they are never empty).
CaseIds == {"case-A", "case-B"}

Queues == 1 .. MaxQueues

\* CaseEventBus.__init__ (event_bus.py:24-26); no queue made, nothing
\* published.  subscribed is history: what each queue was subscribed to
\* ("*" for all cases) and not yet unsubscribed from.
BusIdle ==
  [_subscribers |-> [c \in {} |-> {}],
   _global_subscribers |-> {},
   queues |-> [q \in Queues |-> <<>>],
   made |-> 0,
   published |-> 0,
   subscribed |-> [q \in Queues |-> None]]

\* PubSubEventBus.__init__ (event_bus.py:73-82) and a topic with no
\* subscription.  server is the set of subscriptions that exist on the
\* Pub/Sub service; sent, subscribed, since and until are history: the
\* case ids published so far, what each queue was subscribed to, and how
\* many events had been published when it was subscribed and unsubscribed
\* (-1 while it has not been unsubscribed).
PsIdle ==
  [server |-> {},
   _subscriptions |-> [q \in {} |-> {}],
   queues |-> [q \in Queues |-> <<>>],
   made |-> 0,
   sent |-> <<>>,
   subscribed |-> [q \in Queues |-> None],
   since |-> [q \in Queues |-> 0],
   until |-> [q \in Queues |-> -1]]

\* The core-info specification before a record is chosen.
CiIdle == [record |-> NEMSISRecord, checked |-> FALSE, complete |-> FALSE]

\* The call_gp specification before the call.  lookups and placed count
\* the calls of lookup_gp_phone and place_gp_call.
CgIdle ==
  [pc |-> "idle", gp_name |-> None, gp_phone |-> None, case_id |-> None,
   lookups |-> 0, placed |-> 0, outcome |-> None, result |-> None]

InitSession ==
  /\ db = NewCase
  /\ ses = SessionLocals
  /\ pc = [main |-> "idle", loop |-> "none", stt |-> "none"]
  /\ tasks = [s \in Sessions |-> [k \in Kinds |-> NoTask]]
  /\ started = [s \in Sessions |-> [k \in Kinds |-> 0]]
  /\ hist = NoHistory
  /\ calls = [deliveries |-> 0, rest |-> 0, webhooks |-> 0]

Init ==
  /\ DUMMY_MODE \in BOOLEAN
  /\ InitSession
  /\ m_hist = <<>>
  /\ ov = OvIdle
  /\ bus = BusIdle
  /\ ps = PsIdle
  /\ ci = CiIdle
  /\ wh = <<>>
  /\ cg = CgIdle

\* The values the actions below compute and assign together.
World == [ses |-> ses, db |-> db, tasks |-> tasks, started |-> started, hist |-> hist]

\* hist.sent, the events sent to the client of the session that is open,
\* after one more event of type e.
Sent(sent, e) == [sent EXCEPT ![e] = IF @ < MaxSent THEN @ + 1 ELSE @]

\* _safe_send called by the session itself (stream.py:72-76).  The events
\* are history: they are recorded in the specifications that observe the
\* client (hist.observed), and nothing reads them.
Emit(W, e) ==
  IF W.hist.observed THEN [W EXCEPT !.hist.sent = Sent(@, e)] ELSE W

\* _safe_send called by a background task of session s: when the handler
\* of that session has returned its WebSocket is closed, send_json raises
\* and nothing is sent (stream.py:74-76).
TaskSent(s, sent, e) ==
  IF hist.observed /\ ses.sess = s /\ pc.main # "idle" THEN Sent(sent, e)
  ELSE sent

\* The nemsis_update of _persist_and_emit_nemsis (stream.py:110-111).
EmitNemsis(W) ==
  Emit(W, IF IsCoreInfoComplete(W.ses.current_nemsis)
          THEN "nemsis_update_core" ELSE "nemsis_update")

Becomes(W) ==
  /\ ses' = W.ses
  /\ db' = W.db
  /\ tasks' = W.tasks
  /\ started' = W.started
  /\ hist' = W.hist

\* bool(existing["core_info_complete"]), bool(existing["gp_call_status"])
BoolOfInt(n) == n # 0

\* ------------------------------------------------------------ session open

\* stream_endpoint up to the receive loop: the locals, the reload of the
\* case row, stt.start() and the creation of the extraction task.
Open ==
  /\ pc.main = "idle"
  /\ ses.sess < MaxSessions
  /\ ses' = [SessionLocals EXCEPT
       !.sess = ses.sess + 1,
       !.accumulated_transcript = db.full_transcript,
       !.last_extracted_word_count = WordCount(db.full_transcript),
       !.current_nemsis = model_validate_json(db.nemsis_data),
       !.core_triggered = BoolOfInt(db.core_info_complete),
       !.gp_call_triggered = Truthy(db.gp_call_status)]
  /\ pc' = [main |-> "recv", loop |-> "wait", stt |-> "listen"]
  /\ hist' = [hist EXCEPT !.ready = NoHistory.ready, !.rowcount = None,
                          !.sent = NoHistory.sent]
  /\ UNCHANGED <<DUMMY_MODE, db, tasks, started, calls, side>>

\* ------------------------------------------------------- transcript source

\* The texts one callback can carry.
Utterances == {<<c>> : c \in Chunks}

\* on_partial up to its await of _safe_send (stream.py:180-183).
OnPartial(text) ==
  /\ pc.stt = "listen"
  /\ calls.deliveries < MaxDeliveries
  /\ ses' = [ses EXCEPT !.current_partial = text]
  /\ pc' = [pc EXCEPT !.stt = "partial_send"]
  /\ calls' = [calls EXCEPT !.deliveries = @ + 1]
  /\ UNCHANGED <<DUMMY_MODE, db, tasks, started, hist, side>>

\* An on_partial that never raises the run-now signal.
OnPartialSentWithoutSignal ==
  /\ pc.stt = "partial_send"
  /\ pc' = [pc EXCEPT !.stt = "listen"]
  /\ UNCHANGED <<DUMMY_MODE, db, ses, tasks, started, hist, calls, side>>

\* on_partial after the send (stream.py:185-191).
OnPartialSent ==
  /\ pc.stt = "partial_send"
  /\ LET full_text == FullText(ses.accumulated_transcript, ses.pending_committed,
                               ses.current_partial)
         current_word_count == WordCount(full_text)
     IN ses' = [ses EXCEPT !.extract_now =
                  IF current_word_count - ses.last_extracted_word_count
                       >= WORD_COUNT_THRESHOLD
                  THEN TRUE ELSE @]
  /\ pc' = [pc EXCEPT !.stt = "listen"]
  /\ UNCHANGED <<DUMMY_MODE, db, tasks, started, hist, calls, side>>

\* stream.py:203-207
ShouldFlush(pending_sentence_count, pending_committed) ==
  \/ pending_sentence_count >= 2
  \/ (pending_committed # <<>> /\ _ends_with_sentence(pending_committed))

\* on_committed (stream.py:193-212) up to the first await of
\* _flush_committed, or to its end when nothing is flushed.
OnCommitted(text) ==
  /\ pc.stt = "listen"
  /\ calls.deliveries < MaxDeliveries
  /\ LET pending == IF text # <<>> THEN ses.pending_committed \o text
                    ELSE ses.pending_committed
         count == IF text # <<>>
                  THEN ses.pending_sentence_count + _count_sentence_endings(text)
                  ELSE ses.pending_sentence_count
         should_flush == ShouldFlush(count, pending)
     IN /\ ses' = [ses EXCEPT
             !.current_partial = <<>>,
             !.pending_committed =
                IF should_flush /\ pending = <<>> THEN <<>> ELSE pending,
             !.pending_sentence_count =
                IF should_flush /\ pending = <<>> THEN 0 ELSE count,
             !.extract_now = IF text # <<>> THEN TRUE ELSE @]
        /\ pc' = [pc EXCEPT !.stt =
             IF should_flush /\ pending # <<>> THEN "flush_insert" ELSE "listen"]
  /\ hist' = [hist EXCEPT !.committed = @ \o text]
  /\ calls' = [calls EXCEPT !.deliveries = @ + 1]
  /\ UNCHANGED <<DUMMY_MODE, db, tasks, started, side>>

\* _flush_committed, the INSERT and the append (stream.py:126-133).
InsertSegment(W, text) ==
  [W EXCEPT !.db.transcripts = Append(@, text)]

AppendAccumulated(W, text) ==
  [W EXCEPT !.ses.accumulated_transcript = @ \o text]

\* _flush_committed, the UPDATE of cases.full_transcript (stream.py:134-138).
UpdateFullTranscript(W) ==
  [W EXCEPT !.db.full_transcript = W.ses.accumulated_transcript]

\* on_committed's flush resumes from the INSERT and suspends in the UPDATE.
FlushInsert ==
  /\ pc.stt = "flush_insert"
  /\ Becomes(AppendAccumulated(InsertSegment(World, ses.pending_committed),
                               ses.pending_committed))
  /\ pc' = [pc EXCEPT !.stt = "flush_update"]
  /\ UNCHANGED <<DUMMY_MODE, calls, side>>

\* The flush resumes from the UPDATE, the commit and the send, sets
\* extract_now and returns; on_committed clears the pending buffer
\* (stream.py:138-147, 211-212).
FlushUpdate ==
  /\ pc.stt = "flush_update"
  /\ LET W == Emit(UpdateFullTranscript(World), "transcript_committed")
     IN Becomes([W EXCEPT !.ses.extract_now = TRUE,
                          !.ses.pending_committed = <<>>,
                          !.ses.pending_sentence_count = 0])
  /\ pc' = [pc EXCEPT !.stt = "listen"]
  /\ UNCHANGED <<DUMMY_MODE, calls, side>>

\* ------------------------------------------------------------- dispatching

\* asyncio.create_task(...) with a deep copy of the record
\* (stream.py:269-284, 289-321, 410-425, 429-460).
Spawn(W, kind) ==
  [W EXCEPT
     !.tasks[W.ses.sess][kind] =
        [pc |-> "start", snapshot |-> W.ses.current_nemsis, outcome |-> None],
     !.started[W.ses.sess][kind] = @ + 1]

\* A dispatch block without its "and not ..._triggered" test.
FlagNotTested(flag) == TRUE

\* "... and not core_triggered", "... and not gp_call_triggered"
\* (stream.py:259, 287, 401, 427).
NotYetTriggered(flag) == ~flag

\* is_gp_contact_available (core_info_checker.py:20-23).
is_gp_contact_available(record) ==
  Truthy(record.patient.gp_name) \/ Truthy(record.patient.gp_phone)

\* A GP dispatch gated on is_gp_contact_available instead.
GpDispatchOnContactAvailable(W, by) ==
  IF is_gp_contact_available(W.ses.current_nemsis)
  THEN LET W1 == [W EXCEPT !.hist.ready[by] = @ \cup {"gp_call"}]
       IN IF ~W1.ses.gp_call_triggered
          THEN [W1 EXCEPT
                  !.ses.gp_call_triggered = TRUE,
                  !.tasks[W.ses.sess]["gp_call"] =
                     [pc |-> "start", snapshot |-> W.ses.current_nemsis, outcome |-> None],
                  !.started[W.ses.sess]["gp_call"] = @ + 1]
          ELSE W1
  ELSE W

\* The GP dispatch: gate, flag, snapshot and create_task with no await in
\* between (stream.py:287-321 in the loop, 427-460 in the final pass).
GpDispatch(W, by) ==
  IF IsGpCallReady(W.ses.current_nemsis)
  THEN LET W1 == [W EXCEPT !.hist.ready[by] = @ \cup {"gp_call"}]
       IN IF NotYetTriggered(W1.ses.gp_call_triggered)
          THEN Spawn([W1 EXCEPT !.ses.gp_call_triggered = TRUE], "gp_call")
          ELSE W1
  ELSE W

\* A _persist_and_emit_nemsis that sends without the UPDATE.
PersistNemsisSkipped(W) == W

\* _persist_and_emit_nemsis: the UPDATE of cases.nemsis_data (stream.py:84-111).
PersistNemsis(W) ==
  [W EXCEPT !.db.nemsis_data = model_dump_json(W.ses.current_nemsis)]

\* UPDATE cases SET core_info_complete = 1 (stream.py:262-266, 404-408).
PersistCoreInfoComplete(W) == [W EXCEPT !.db.core_info_complete = 1]

\* --------------------------------------------------------- extraction loop

\* A pass whose result is written into the record object in place, with
\* the tasks of the session holding that object instead of a deep copy.
ExtractedInPlace(W, full_text, answer) ==
  LET record == _infer_gp_details(
                  extract_nemsis(DUMMY_MODE, full_text, W.ses.current_nemsis, answer),
                  full_text)
  IN [W EXCEPT
        !.ses.current_nemsis = record,
        !.ses.last_extracted_word_count = WordCount(full_text),
        !.ses.full_text = <<>>,
        !.hist.covered = @ \cup SeqToSet(full_text),
        !.hist.failed = (~DUMMY_MODE /\ answer = <<"fail">>),
        !.tasks[W.ses.sess] =
           [k \in Kinds |-> IF @[k].pc = "none" THEN @[k]
                            ELSE [@[k] EXCEPT !.snapshot = record]]]

\* stream.py:253-255: the extractor's result becomes the session's record,
\* GP details are inferred from the text, the word count is recorded.
Extracted(W, full_text, answer) ==
  [W EXCEPT
     !.ses.current_nemsis =
        _infer_gp_details(
          extract_nemsis(DUMMY_MODE, full_text, W.ses.current_nemsis, answer),
          full_text),
     !.ses.last_extracted_word_count = WordCount(full_text),
     !.ses.full_text = <<>>,
     !.hist.covered = @ \cup SeqToSet(full_text),
     !.hist.failed = (~DUMMY_MODE /\ answer = <<"fail">>)]

\* A loop without the comparison of the word counts (stream.py:247-249):
\* every wake-up starts a pass.
LoopWakeWithoutWordCountTest ==
  /\ pc.loop = "wait"
  /\ LET full_text == FullText(ses.accumulated_transcript, ses.pending_committed,
                               ses.current_partial)
         W == [World EXCEPT !.ses.extract_now = FALSE]
     IN IF DUMMY_MODE
        THEN /\ Becomes(Extracted([W EXCEPT !.ses.extraction_lock = "loop"],
                                  full_text, <<"unused">>))
             /\ pc' = [pc EXCEPT !.loop = "persist"]
        ELSE /\ Becomes([W EXCEPT !.ses.extraction_lock = "loop",
                                  !.ses.full_text = full_text])
             /\ pc' = [pc EXCEPT !.loop = "extract"]
  /\ UNCHANGED <<DUMMY_MODE, calls, side>>

\* A loop whose asyncio.wait has no timeout: it wakes on the run-now signal
\* only.
LoopWakeOnSignalOnly ==
  /\ pc.loop = "wait"
  /\ ses.extract_now
  /\ LET full_text == FullText(ses.accumulated_transcript, ses.pending_committed,
                               ses.current_partial)
         W == [World EXCEPT !.ses.extract_now = FALSE]
     IN IF WordCount(full_text) <= ses.last_extracted_word_count
        THEN Becomes(W) /\ pc' = pc
        ELSE IF DUMMY_MODE
        THEN /\ Becomes(Extracted([W EXCEPT !.ses.extraction_lock = "loop"],
                                  full_text, <<"unused">>))
             /\ pc' = [pc EXCEPT !.loop = "persist"]
        ELSE /\ Becomes([W EXCEPT !.ses.extraction_lock = "loop",
                                  !.ses.full_text = full_text])
             /\ pc' = [pc EXCEPT !.loop = "extract"]
  /\ UNCHANGED <<DUMMY_MODE, calls, side>>

\* _extraction_loop wakes from asyncio.wait (run-now signal or timeout),
\* clears the signal and compares the word counts (stream.py:217-249); with
\* new words it takes the lock and calls the extractor (251-253).  The
\* keyword extractor has no await: the pass runs on to the UPDATE of
\* _persist_and_emit_nemsis.
LoopWake ==
  /\ pc.loop = "wait"
  /\ LET full_text == FullText(ses.accumulated_transcript, ses.pending_committed,
                               ses.current_partial)
         current_word_count == WordCount(full_text)
         W == [World EXCEPT !.ses.extract_now = FALSE]
     IN IF current_word_count <= ses.last_extracted_word_count
        THEN Becomes(W) /\ pc' = pc
        ELSE IF DUMMY_MODE
        THEN /\ Becomes(Extracted([W EXCEPT !.ses.extraction_lock = "loop"],
                                  full_text, <<"unused">>))
             /\ pc' = [pc EXCEPT !.loop = "persist"]
        ELSE /\ Becomes([W EXCEPT !.ses.extraction_lock = "loop",
                                  !.ses.full_text = full_text])
             /\ pc' = [pc EXCEPT !.loop = "extract"]
  /\ UNCHANGED <<DUMMY_MODE, calls, side>>

\* The language model answers or fails (stream.py:253-256).
LoopExtract ==
  /\ pc.loop = "extract"
  /\ \E answer \in LlmAnswers(ses.full_text) :
       Becomes(Extracted(World, ses.full_text, answer))
  /\ pc' = [pc EXCEPT !.loop = "persist"]
  /\ UNCHANGED <<DUMMY_MODE, calls, side>>

\* The record is persisted and emitted; the core gate is evaluated and, when
\* it fires, the flag is set and the loop suspends in the UPDATE of
\* core_info_complete (stream.py:256-262); otherwise the GP gate is
\* evaluated and the pass ends.
LoopPersist ==
  /\ pc.loop = "persist"
  /\ LET W == EmitNemsis(PersistNemsis(World))
     IN IF IsCoreInfoComplete(ses.current_nemsis)
        THEN LET W1 == [W EXCEPT !.hist.ready["loop"] = @ \cup {"medical_db"}]
             IN IF NotYetTriggered(ses.core_triggered)
                THEN /\ Becomes([W1 EXCEPT !.ses.core_triggered = TRUE])
                     /\ pc' = [pc EXCEPT !.loop = "core_db"]
                ELSE /\ Becomes([GpDispatch(W1, "loop") EXCEPT
                                   !.ses.extraction_lock = "free",
                                   !.hist.failed = FALSE])
                     /\ pc' = [pc EXCEPT !.loop = "wait"]
        ELSE /\ Becomes([GpDispatch(W, "loop") EXCEPT !.ses.extraction_lock = "free",
                                                     !.hist.failed = FALSE])
             /\ pc' = [pc EXCEPT !.loop = "wait"]
  /\ UNCHANGED <<DUMMY_MODE, calls, side>>

\* A loop that awaits the medical lookup it started before it leaves the
\* "async with extraction_lock" block.
LoopCoreDbAwaitsLookup ==
  /\ pc.loop = "core_db"
  /\ Becomes(GpDispatch(Spawn(Emit(PersistCoreInfoComplete(World), "core_info_complete"),
                                 "medical_db"), "loop"))
  /\ pc' = [pc EXCEPT !.loop = "await_lookup"]
  /\ UNCHANGED <<DUMMY_MODE, calls, side>>

\* The UPDATE, commit and send of core_info_complete are done; the medical
\* lookup is spawned, the GP gate is evaluated, the lock is released
\* (stream.py:262-321).
LoopCoreDb ==
  /\ pc.loop = "core_db"
  /\ Becomes([GpDispatch(Spawn(Emit(PersistCoreInfoComplete(World), "core_info_complete"),
                                 "medical_db"), "loop")
                EXCEPT !.ses.extraction_lock = "free", !.hist.failed = FALSE])
  /\ pc' = [pc EXCEPT !.loop = "wait"]
  /\ UNCHANGED <<DUMMY_MODE, calls, side>>

\* ------------------------------------------------------------------ close

\* A teardown that also cancels the session's background tasks.
CancelLoopAndTasks(W, at, applied) ==
  [W EXCEPT !.ses.extraction_lock = "free", !.ses.full_text = <<>>,
            !.hist.failed = FALSE,
            !.tasks[W.ses.sess] = [k \in Kinds |-> NoTask]]

\* CancelledError thrown into the extraction task at the await it is
\* suspended in.  It is not an Exception, so the handler at stream.py:323
\* does not catch it; "async with" releases the lock.  applied: whether
\* the database write in progress took effect.
CancelLoop(W, at, applied) ==
  LET W1 == IF at = "persist" /\ applied THEN PersistNemsis(W)
            ELSE IF at = "core_db" /\ applied THEN PersistCoreInfoComplete(W)
            ELSE W
  IN [W1 EXCEPT !.ses.extraction_lock = "free", !.ses.full_text = <<>>,
                !.hist.failed = FALSE]

\* A finally block without extraction_task.cancel() and the await of the
\* task.
CloseWithoutCancel ==
  /\ pc.main = "recv"
  /\ Becomes([World EXCEPT !.ses.stop_extraction = TRUE])
  /\ pc' = [pc EXCEPT !.main = "stop_stt"]
  /\ UNCHANGED <<DUMMY_MODE, calls, side>>

\* The receive loop ends (end_call, disconnect or error); the finally block
\* sets stop_extraction, cancels the extraction task and awaits it
\* (stream.py:353-374).
Close ==
  /\ pc.main = "recv"
  /\ \E applied \in BOOLEAN :
       Becomes([CancelLoop(World, pc.loop, applied) EXCEPT
                  !.ses.stop_extraction = TRUE])
  /\ pc' = [pc EXCEPT !.main = "stop_stt", !.loop = "done"]
  /\ UNCHANGED <<DUMMY_MODE, calls, side>>

\* CancelledError thrown into the listener task inside on_partial or
\* on_committed (transcription.py:64-78).
CancelStt(W, at, applied) ==
  IF at = "flush_insert" /\ applied THEN InsertSegment(W, W.ses.pending_committed)
  ELSE IF at = "flush_update" /\ applied THEN UpdateFullTranscript(W)
  ELSE W

\* await stt.stop() (stream.py:384).
StopStt ==
  /\ pc.main = "stop_stt"
  /\ \E applied \in BOOLEAN : Becomes(CancelStt(World, pc.stt, applied))
  /\ pc' = [pc EXCEPT !.main = "final_flush", !.stt = "stopped"]
  /\ UNCHANGED <<DUMMY_MODE, calls, side>>

\* A final flush without stream.py:386-387: the partial is not joined.
FinalFlushDropsPartial(W) ==
  LET pending == W.ses.pending_committed
  IN IF pending # <<>>
     THEN [Emit(UpdateFullTranscript(
                  AppendAccumulated(InsertSegment(W, pending), pending)),
                "transcript_committed")
             EXCEPT !.ses.extract_now = TRUE,
                    !.ses.pending_committed = <<>>,
                    !.ses.pending_sentence_count = 0]
     ELSE W

\* The partial joins the pending buffer and the buffer is flushed
\* (stream.py:386-391, 121-147).
FinalFlushed(W) ==
  LET pending == W.ses.pending_committed \o W.ses.current_partial
  IN IF pending # <<>>
     THEN [Emit(UpdateFullTranscript(
                  AppendAccumulated(InsertSegment(W, pending), pending)),
                "transcript_committed")
             EXCEPT !.ses.extract_now = TRUE,
                    !.ses.pending_committed = <<>>,
                    !.ses.pending_sentence_count = 0]
     ELSE W

\* stream.py:393
FinalPassNeeded(accumulated_transcript, last_extracted_word_count) ==
  WordCount(accumulated_transcript) > last_extracted_word_count

FinalFlush ==
  /\ pc.main = "final_flush"
  /\ LET W == [FinalFlushed(World) EXCEPT
                 !.hist.committed = @ \o ses.current_partial]
     IN IF FinalPassNeeded(W.ses.accumulated_transcript,
                           W.ses.last_extracted_word_count)
        THEN /\ Becomes([W EXCEPT !.ses.extraction_lock = "final"])
             /\ pc' = [pc EXCEPT !.main = "final_extract"]
        ELSE /\ Becomes(W)
             /\ pc' = [pc EXCEPT !.main = "mark"]
  /\ UNCHANGED <<DUMMY_MODE, calls, side>>

\* The core dispatch of the final pass (stream.py:401-425).
FinalCoreDispatch(W) ==
  IF IsCoreInfoComplete(W.ses.current_nemsis)
  THEN LET W1 == [W EXCEPT !.hist.ready["final"] = @ \cup {"medical_db"}]
       IN IF NotYetTriggered(W1.ses.core_triggered)
          THEN Spawn(Emit(PersistCoreInfoComplete(
                            [W1 EXCEPT !.ses.core_triggered = TRUE]),
                          "core_info_complete"),
                     "medical_db")
          ELSE W1
  ELSE W

\* The final extraction pass over the accumulated transcript
\* (stream.py:396-460).  Nothing cancels the handler, so the pass is one step.
FinalExtract ==
  /\ pc.main = "final_extract"
  /\ \E answer \in LlmAnswers(ses.accumulated_transcript) :
       LET W == [World EXCEPT
                   !.ses.current_nemsis =
                      extract_nemsis(DUMMY_MODE, ses.accumulated_transcript,
                                     ses.current_nemsis, answer),
                   !.hist.covered = @ \cup SeqToSet(ses.accumulated_transcript),
                   !.hist.failed = (~DUMMY_MODE /\ answer = <<"fail">>)]
       IN Becomes([GpDispatch(FinalCoreDispatch(EmitNemsis(PersistNemsis(W))), "final")
                     EXCEPT !.ses.extraction_lock = "free"])
  /\ pc' = [pc EXCEPT !.main = "mark"]
  /\ UNCHANGED <<DUMMY_MODE, calls, side>>

\* The UPDATE without "AND status = 'active'".
MarkCompletedUnconditionally(status) == "completed"

\* UPDATE cases SET status = 'completed' ... AND status = 'active'
\* (stream.py:467-471).
MarkCompletedIfActive(status) ==
  IF status = "active" THEN "completed" ELSE status

MarkCompleted ==
  /\ pc.main = "mark"
  /\ db' = [db EXCEPT !.status = MarkCompletedIfActive(@)]
  /\ hist' = [hist EXCEPT !.rowcount = IF db.status = "active" THEN 1 ELSE 0,
                          !.failed = FALSE]
  /\ pc' = [main |-> "idle", loop |-> "none", stt |-> "none"]
  /\ UNCHANGED <<DUMMY_MODE, ses, tasks, started, calls, side>>

\* -------------------------------------------------------- background tasks

\* _run_medical_db_and_emit: trigger_medical_db returns a report, which is
\* written to the case row, or raises, which is logged (stream.py:271-282).
RunMedicalDb(s) ==
  /\ tasks[s]["medical_db"].pc = "start"
  /\ \E report \in {"report", None} :
       /\ db' = [db EXCEPT !.medical_db_response = IF report # None THEN report ELSE @]
       /\ hist' = IF report # None
                  THEN [hist EXCEPT !.sent = TaskSent(s, @, "medical_db_complete")]
                  ELSE hist
  /\ tasks' = [tasks EXCEPT ![s]["medical_db"].pc = "done"]
  /\ UNCHANGED <<DUMMY_MODE, ses, pc, started, calls, side>>

\* An audit row (gp_caller.py:154-184).  conversation_id 0 is None.
AuditRow(outcome, conversation_id) ==
  [outcome |-> outcome, conversation_id |-> conversation_id, transcript |-> None]

\* _run_gp_call_and_deliver_doc -> trigger_gp_call -> call_gp up to the
\* call placement (gp_caller.py:49-90): no contact returns at once; a
\* confirmed phone is used directly; otherwise the phone is looked up,
\* and a failed lookup writes a lookup_failed audit row and returns before
\* the case row is touched.  "raise": trigger_gp_call raises and the task
\* logs it (stream.py:318-319).
GpCallResolve(s) ==
  /\ tasks[s]["gp_call"].pc = "start"
  /\ LET p == tasks[s]["gp_call"].snapshot.patient
         triggered == TaskSent(s, hist.sent, "gp_call_triggered")
         complete == TaskSent(s, triggered, "gp_call_complete")
     IN IF ~Truthy(p.gp_name) /\ ~Truthy(p.gp_phone)
        THEN /\ tasks' = [tasks EXCEPT ![s]["gp_call"].pc = "doc"]
             /\ db' = db
             /\ hist' = [hist EXCEPT !.sent = complete]
        ELSE \E lookup \in {"found", "not_found", "raise"} :
               IF Truthy(p.gp_phone) \/ lookup = "found"
               THEN /\ tasks' = [tasks EXCEPT ![s]["gp_call"].pc = "place"]
                    /\ db' = db
                    /\ hist' = [hist EXCEPT !.sent = triggered]
               ELSE IF lookup = "not_found"
               THEN /\ tasks' = [tasks EXCEPT ![s]["gp_call"].pc = "doc"]
                    /\ db' = [db EXCEPT !.gp_call_audit =
                                Append(@, AuditRow("lookup_failed", 0))]
                    /\ hist' = [hist EXCEPT !.sent = complete]
               ELSE /\ tasks' = [tasks EXCEPT ![s]["gp_call"].pc = "done"]
                    /\ db' = db
                    /\ hist' = [hist EXCEPT !.sent = triggered]
  /\ UNCHANGED <<DUMMY_MODE, ses, pc, started, calls, side>>

\* place_gp_call answers initiated (with a conversation id) or error, and
\* the audit row is written (gp_caller.py:92-112).  The conversation id of
\* the call made for session s is s.
GpCallPlace(s) ==
  /\ tasks[s]["gp_call"].pc = "place"
  /\ \E status \in {"initiated", "error"} :
       /\ tasks' = [tasks EXCEPT ![s]["gp_call"].pc = "status",
                                 ![s]["gp_call"].outcome = status]
       /\ db' = [db EXCEPT !.gp_call_audit =
                   Append(@, AuditRow(status, IF status = "initiated" THEN s ELSE 0))]
  /\ UNCHANGED <<DUMMY_MODE, ses, pc, started, hist, calls, side>>

\* UPDATE cases SET gp_call_status = outcome (gp_caller.py:115-130).
GpCallUpdateCase(s) ==
  /\ tasks[s]["gp_call"].pc = "status"
  /\ db' = [db EXCEPT !.gp_call_status = tasks[s]["gp_call"].outcome]
  /\ tasks' = [tasks EXCEPT ![s]["gp_call"].pc = "doc"]
  /\ hist' = [hist EXCEPT !.sent = TaskSent(s, @, "gp_call_complete")]
  /\ UNCHANGED <<DUMMY_MODE, ses, pc, started, calls, side>>

\* After GP_DOCUMENT_DELAY_SECONDS the document text is written to
\* cases.gp_response (stream.py:297-317).
GpDeliverDoc(s) ==
  /\ tasks[s]["gp_call"].pc = "doc"
  /\ db' = [db EXCEPT !.gp_response = "document"]
  /\ tasks' = [tasks EXCEPT ![s]["gp_call"].pc = "done"]
  /\ hist' = [hist EXCEPT !.sent = TaskSent(s, @, "gp_data_received")]
  /\ UNCHANGED <<DUMMY_MODE, ses, pc, started, calls, side>>

\* ------------------------------------------------------- webhook and REST

\* gp_call.py:79
WebhookOutcome(call_status) ==
  IF call_status = "completed" THEN "answered" ELSE call_status

\* A handler without the two early returns.
PostCallNeverReturnsEarly(d, conversation_id) == TRUE

\* Whether the SELECT of gp_call.py:49-52 finds an audit row.
PostCallMatches(d, conversation_id) ==
  /\ conversation_id # 0
  /\ \E i \in DOMAIN d.gp_call_audit :
       d.gp_call_audit[i].conversation_id = conversation_id

\* The reply of elevenlabs_post_call (gp_call.py:44, 58, 109).
PostCallResponse(d, conversation_id) ==
  [status |-> "ok",
   message |-> IF conversation_id = 0 THEN "No conversation_id provided"
               ELSE IF ~PostCallMatches(d, conversation_id)
               THEN "No matching audit record"
               ELSE None]

\* elevenlabs_post_call (gp_call.py:33-109).  Its event_bus.publish
\* (gp_call.py:102) is the one call of publish in the program: those in
\* stream.py (82, 113, 466) are commented out.
elevenlabs_post_call(W, conversation_id, call_status) ==
  IF ~PostCallMatches(W.db, conversation_id) THEN W
  ELSE [W EXCEPT
          !.hist.published = @ \cup {"gp_call_transcript"},
          !.db.gp_call_audit =
             [i \in DOMAIN @ |->
                IF @[i].conversation_id = conversation_id
                THEN [@[i] EXCEPT !.outcome = WebhookOutcome(call_status),
                                  !.transcript = "transcript"]
                ELSE @[i]],
          !.db.gp_call_status = WebhookOutcome(call_status)]

ElevenlabsPostCall(conversation_id, call_status) ==
  /\ calls.webhooks < MaxWebhooks
  /\ calls' = [calls EXCEPT !.webhooks = @ + 1]
  /\ Becomes(elevenlabs_post_call(World, conversation_id, call_status))
  /\ UNCHANGED <<DUMMY_MODE, pc, side>>

\* update_case_status (cases.py:146-160): any status string is written.
UpdateCaseStatus(status) ==
  /\ calls.rest < MaxRest
  /\ calls' = [calls EXCEPT !.rest = @ + 1]
  /\ db' = [db EXCEPT !.status = status]
  /\ UNCHANGED <<DUMMY_MODE, ses, pc, tasks, started, hist, side>>

\* ---------------------------------------------------------- specification

CallStatuses == {"completed", ""}

CaseStatuses == {"archived"}

Next ==
  \/ Open
  \/ \E text \in Utterances : OnPartial(text)
  \/ OnPartialSent
  \/ \E text \in Utterances \cup {<<>>} : OnCommitted(text)
  \/ FlushInsert
  \/ FlushUpdate
  \/ LoopWake
  \/ LoopExtract
  \/ LoopPersist
  \/ LoopCoreDb
  \/ Close
  \/ StopStt
  \/ FinalFlush
  \/ FinalExtract
  \/ MarkCompleted
  \/ \E s \in Sessions : RunMedicalDb(s)
  \/ \E s \in Sessions : GpCallResolve(s)
  \/ \E s \in Sessions : GpCallPlace(s)
  \/ \E s \in Sessions : GpCallUpdateCase(s)
  \/ \E s \in Sessions : GpDeliverDoc(s)
  \/ \E c \in 0 .. MaxSessions, st \in CallStatuses : ElevenlabsPostCall(c, st)
  \/ \E st \in CaseStatuses : UpdateCaseStatus(st)

Spec == Init /\ [][Next]_vars

\* ------------------------------------------------------ merge specification

\* The records merged in the merge specification: two scalars of the patient
\* section, each null or set, and the procedures list: empty, with one item,
\* with two items of which one is the item of the former, or with one item
\* twice.
MergeInputs ==
  { [patient |-> [NEMSISPatientInfo EXCEPT !.patient_name_last = n, !.patient_age = a],
     procedures |-> [procedures |-> l]] :
      n \in {None, "Smith", "Jones"},
      a \in {None, "45"},
      l \in {<<>>, <<"IV access">>, <<"12-lead ECG", "IV access">>,
              <<"IV access", "IV access">>} }

\* m_hist[1] is the starting record R0; m_hist[i + 1] holds the i-th new
\* record and _merge_records(m_hist[i].merged, new).
InitMerge ==
  /\ DUMMY_MODE = FALSE
  /\ InitSession
  /\ ov = OvIdle
  /\ bus = BusIdle
  /\ ps = PsIdle
  /\ ci = CiIdle
  /\ wh = <<>>
  /\ cg = CgIdle
  /\ \E r \in MergeInputs : m_hist = << [new |-> r, merged |-> r] >>

MergeStep ==
  /\ Len(m_hist) <= MaxMerges
  /\ \E new \in MergeInputs :
       m_hist' = Append(m_hist,
                        [new |-> new,
                         merged |-> MergeRecords(m_hist[Len(m_hist)].merged, new)])
  /\ UNCHANGED <<session, ov, bus, ps, ci, wh, cg>>

NextMerge == MergeStep

SpecMerge == InitMerge /\ [][NextMerge]_vars

\* ---------------------------------------------------- overlap specification

\* Two sessions of one case, each a call of stream_endpoint, that run at
\* the same time: the first connection was abandoned and is still flushing
\* when the second is opened.  Only the transcript path is modelled.

\* The session's locals and the case row, as the flush operators read them.
OvWorld(i) == [ses |-> ov.s[i], db |-> ov.db]

InitOverlap ==
  /\ DUMMY_MODE = FALSE
  /\ InitSession
  /\ m_hist = <<>>
  /\ ov = OvIdle
  /\ bus = BusIdle
  /\ ps = PsIdle
  /\ ci = CiIdle
  /\ wh = <<>>
  /\ cg = CgIdle

\* stream.py:331-337: the session loads full_transcript into its
\* accumulated_transcript.  The second session opens after the first.
OvOpen(i) ==
  /\ ov.s[i].pc = "none"
  /\ i = 1 \/ ov.s[1].pc # "none"
  /\ ov' = [ov EXCEPT !.s[i].pc = "open",
                      !.s[i].accumulated_transcript = ov.db.full_transcript]
  /\ UNCHANGED <<session, m_hist, bus, ps, ci, wh, cg>>

\* _flush_committed(text), called by on_committed or by the final flush of
\* close: the INSERT is done, the text is appended to accumulated_transcript
\* and the flush suspends in the UPDATE (stream.py:126-134).
OvFlushInsert(i, text) ==
  /\ ov.s[i].pc = "open"
  /\ ov.flushes < MaxFlushes
  /\ LET W == AppendAccumulated(InsertSegment(OvWorld(i), text), text)
     IN ov' = [ov EXCEPT !.db = W.db,
                         !.s[i] = [W.ses EXCEPT !.pc = "flush_update", !.text = text],
                         !.flushes = @ + 1]
  /\ UNCHANGED <<session, m_hist, bus, ps, ci, wh, cg>>

\* The UPDATE of cases.full_transcript is done (stream.py:134-147).
OvFlushUpdate(i) ==
  /\ ov.s[i].pc = "flush_update"
  /\ LET W == UpdateFullTranscript(OvWorld(i))
     IN ov' = [ov EXCEPT !.db = W.db,
                         !.s[i] = [W.ses EXCEPT !.pc = "open", !.text = <<>>]]
  /\ UNCHANGED <<session, m_hist, bus, ps, ci, wh, cg>>

NextOverlap ==
  \/ \E i \in OvSessions : OvOpen(i)
  \/ \E i \in OvSessions, text \in Utterances : OvFlushInsert(i, text)
  \/ \E i \in OvSessions : OvFlushUpdate(i)

SpecOverlap == InitOverlap /\ [][NextOverlap]_vars

\* -------------------------------------------------------- bus specification

\* dict.get(case_id, set())
SubscribersOf(b, case_id) ==
  IF case_id \in DOMAIN b._subscribers THEN b._subscribers[case_id] ELSE {}

\* CaseEventBus.subscribe (event_bus.py:38-44); queue is the new Queue().
subscribe(b, case_id, queue) ==
  [b EXCEPT !._subscribers =
     [c \in DOMAIN b._subscribers \cup {case_id} |->
        IF c = case_id THEN SubscribersOf(b, case_id) \cup {queue}
        ELSE b._subscribers[c]]]

\* CaseEventBus.subscribe_all (event_bus.py:28-32)
subscribe_all(b, queue) ==
  [b EXCEPT !._global_subscribers = @ \cup {queue}]

\* CaseEventBus.unsubscribe (event_bus.py:46-51): discard, and delete the
\* key when its set is empty.
unsubscribe(b, case_id, queue) ==
  IF case_id \in DOMAIN b._subscribers
  THEN LET rest == b._subscribers[case_id] \ {queue}
           keys == IF rest = {} THEN DOMAIN b._subscribers \ {case_id}
                   ELSE DOMAIN b._subscribers
       IN [b EXCEPT !._subscribers =
             [c \in keys |-> IF c = case_id THEN rest ELSE b._subscribers[c]]]
  ELSE b

\* CaseEventBus.unsubscribe_all (event_bus.py:34-36)
unsubscribe_all(b, queue) ==
  [b EXCEPT !._global_subscribers = @ \ {queue}]

\* Queue.put_nowait on a Queue() made without maxsize: the queue is
\* unbounded, QueueFull is never raised.
put_nowait(items, event) == Append(items, event)

\* A fan-out that ignores the case id: the subscribers of every case.
PublishTargetsOfAnyCase(b, case_id) ==
  UNION {b._subscribers[c] : c \in DOMAIN b._subscribers} \cup b._global_subscribers

\* The queues that publish(case_id, ...) puts the event on.
PublishTargets(b, case_id) ==
  SubscribersOf(b, case_id) \cup b._global_subscribers

\* CaseEventBus.publish (event_bus.py:53-67).  No queue is in both sets:
\* a queue is made by subscribe or by subscribe_all.
publish(b, case_id, event) ==
  LET stamped == [event EXCEPT !.case_id = case_id]
  IN [b EXCEPT !.queues =
        [q \in Queues |->
           IF q \in PublishTargets(b, case_id) THEN put_nowait(b.queues[q], stamped)
           ELSE b.queues[q]]]

InitBus ==
  /\ DUMMY_MODE = FALSE
  /\ InitSession
  /\ m_hist = <<>>
  /\ ov = OvIdle
  /\ bus = BusIdle
  /\ ps = PsIdle
  /\ ci = CiIdle
  /\ wh = <<>>
  /\ cg = CgIdle

BusSubscribe(case_id) ==
  /\ bus.made < MaxQueues
  /\ bus' = [subscribe(bus, case_id, bus.made + 1) EXCEPT
               !.made = @ + 1, !.subscribed[bus.made + 1] = case_id]
  /\ UNCHANGED <<session, m_hist, ov, ps, ci, wh, cg>>

BusSubscribeAll ==
  /\ bus.made < MaxQueues
  /\ bus' = [subscribe_all(bus, bus.made + 1) EXCEPT
               !.made = @ + 1, !.subscribed[bus.made + 1] = "*"]
  /\ UNCHANGED <<session, m_hist, ov, ps, ci, wh, cg>>

\* Any queue the bus made, with any case id: the caller may name a case the
\* queue is not subscribed to, or unsubscribe twice.
BusUnsubscribe(case_id, queue) ==
  /\ queue <= bus.made
  /\ bus' = [unsubscribe(bus, case_id, queue) EXCEPT
               !.subscribed[queue] = IF @ = case_id THEN None ELSE @]
  /\ UNCHANGED <<session, m_hist, ov, ps, ci, wh, cg>>

BusUnsubscribeAll(queue) ==
  /\ queue <= bus.made
  /\ bus' = [unsubscribe_all(bus, queue) EXCEPT
               !.subscribed[queue] = IF @ = "*" THEN None ELSE @]
  /\ UNCHANGED <<session, m_hist, ov, ps, ci, wh, cg>>

\* The event is a dict whose case_id the caller may have set to anything;
\* n numbers the publishes.
BusPublish(case_id) ==
  /\ bus.published < MaxPublishes
  /\ \E theirs \in CaseIds :
       bus' = [publish(bus, case_id, [case_id |-> theirs, n |-> bus.published + 1])
                 EXCEPT !.published = @ + 1]
  /\ UNCHANGED <<session, m_hist, ov, ps, ci, wh, cg>>

NextBus ==
  \/ \E c \in CaseIds : BusSubscribe(c)
  \/ BusSubscribeAll
  \/ \E c \in CaseIds, q \in Queues : BusUnsubscribe(c, q)
  \/ \E q \in Queues : BusUnsubscribeAll(q)
  \/ \E c \in CaseIds : BusPublish(c)

SpecBus == InitBus /\ [][NextBus]_vars

\* ---------------------------------------------------- Pub/Sub specification

\* _create_subscription (event_bus.py:84-110).  created: whether the first
\* create_subscription call succeeded.  The result is the subscription as
\* the service holds it and the fallback filter the listener gets.
\* filter_expr is None for subscribe_all (case_id None).
_create_subscription(sub_path, case_id, created) ==
  LET filter_expr == IF Truthy(case_id) THEN case_id ELSE None
  IN IF created
     THEN [subscription |-> [path |-> sub_path, filter |-> filter_expr],
           fallback_filter |-> None]
     ELSE [subscription |-> [path |-> sub_path, filter |-> None],
           fallback_filter |-> case_id]

\* The service delivers a message to a subscription when the subscription
\* has no filter or the message's case_id attribute equals the filter's.
ServerMatches(filter, attribute) == filter = None \/ filter = attribute

\* A listener that puts every message it is handed on the queue.
ClientPassesAll(filter_expr, event) == TRUE

\* _callback (event_bus.py:115-129): with a fallback filter, an event that
\* carries another case_id is acknowledged and dropped.
ClientPasses(filter_expr, event) ==
  ~(Truthy(filter_expr) /\ Truthy(event.case_id) /\ event.case_id # filter_expr)

\* Whether an event published with this case_id reaches the queue.
Reaches(p, queue, event) ==
  /\ queue \in DOMAIN p._subscriptions
  /\ p._subscriptions[queue].future = "running"
  /\ \E sub \in p.server :
       /\ sub.path = p._subscriptions[queue].sub_path
       /\ ServerMatches(sub.filter, event.case_id)
  /\ ClientPasses(p._subscriptions[queue].filter_expr, event)

\* PubSubEventBus.subscribe / subscribe_all (event_bus.py:133-145); the
\* subscription path is the queue's number.
PsSubscribed(p, case_id, queue, created) ==
  LET made == _create_subscription(queue, case_id, created)
  IN [p EXCEPT
        !.server = @ \cup {made.subscription},
        !._subscriptions =
           [q \in DOMAIN @ \cup {queue} |->
              IF q = queue
              THEN [sub_path |-> queue, future |-> "running",
                    filter_expr |-> made.fallback_filter]
              ELSE @[q]]]

\* delete_subscription (event_bus.py:162-165): done, or it raised and the
\* warning was logged.
Delete(server, sub_path, deleted) ==
  IF deleted THEN {sub \in server : sub.path # sub_path} ELSE server

\* PubSubEventBus._unsubscribe (event_bus.py:153-165).
_unsubscribe(p, queue, deleted) ==
  IF queue \in DOMAIN p._subscriptions
  THEN [p EXCEPT
          !._subscriptions = [q \in DOMAIN @ \ {queue} |-> @[q]],
          !.server = Delete(@, p._subscriptions[queue].sub_path, deleted)]
  ELSE p

InitPubSub ==
  /\ DUMMY_MODE = FALSE
  /\ InitSession
  /\ m_hist = <<>>
  /\ ov = OvIdle
  /\ bus = BusIdle
  /\ ps = PsIdle
  /\ ci = CiIdle
  /\ wh = <<>>
  /\ cg = CgIdle

PsSubscribe(case_id) ==
  /\ ps.made < MaxQueues
  /\ \E created \in BOOLEAN :
       ps' = [PsSubscribed(ps, case_id, ps.made + 1, created) EXCEPT
                !.made = @ + 1,
                !.subscribed[ps.made + 1] = case_id,
                !.since[ps.made + 1] = Len(ps.sent)]
  /\ UNCHANGED <<session, m_hist, ov, bus, ci, wh, cg>>

PsSubscribeAll ==
  /\ ps.made < MaxQueues
  /\ \E created \in BOOLEAN :
       ps' = [PsSubscribed(ps, None, ps.made + 1, created) EXCEPT
                !.made = @ + 1,
                !.subscribed[ps.made + 1] = "*",
                !.since[ps.made + 1] = Len(ps.sent)]
  /\ UNCHANGED <<session, m_hist, ov, bus, ci, wh, cg>>

\* unsubscribe(case_id, queue) and unsubscribe_all(queue) are both
\* _unsubscribe(queue) (event_bus.py:147-151).
PsUnsubscribe(queue) ==
  /\ queue <= ps.made
  /\ \E deleted \in BOOLEAN :
       ps' = [_unsubscribe(ps, queue, deleted) EXCEPT
                !.until[queue] = IF @ = -1 THEN Len(ps.sent) ELSE @]
  /\ UNCHANGED <<session, m_hist, ov, bus, ci, wh, cg>>

\* PubSubEventBus.publish (event_bus.py:167-177) and the delivery of the
\* message by the service to the listeners.
PsPublish(case_id) ==
  /\ Len(ps.sent) < MaxPublishes
  /\ LET event == [case_id |-> case_id, n |-> Len(ps.sent) + 1]
     IN ps' = [ps EXCEPT
                 !.sent = Append(@, case_id),
                 !.queues = [q \in Queues |->
                               IF Reaches(ps, q, event) THEN put_nowait(@[q], event)
                               ELSE @[q]]]
  /\ UNCHANGED <<session, m_hist, ov, bus, ci, wh, cg>>

NextPubSub ==
  \/ \E c \in CaseIds : PsSubscribe(c)
  \/ PsSubscribeAll
  \/ \E q \in Queues : PsUnsubscribe(q)
  \/ \E c \in CaseIds : PsPublish(c)

SpecPubSub == InitPubSub /\ [][NextPubSub]_vars

\* -------------------------------------------------- core-info specification

\* The values of an optional string field: null, the empty string, a text.
FieldValues(text) == {None, "", text}

\* The records the core-info check is applied to.
CoreInputs ==
  { [NEMSISRecord EXCEPT
       !.patient.patient_name_first = first,
       !.patient.patient_name_last = last,
       !.patient.patient_address = address,
       !.patient.patient_age = age,
       !.patient.patient_gender = gender] :
      first \in FieldValues("John"), last \in FieldValues("Smith"),
      address \in FieldValues("742 Evergreen Terrace"),
      age \in FieldValues("45"), gender \in FieldValues("Male") }

InitCore ==
  /\ DUMMY_MODE = FALSE
  /\ InitSession
  /\ m_hist = <<>>
  /\ ov = OvIdle
  /\ bus = BusIdle
  /\ ps = PsIdle
  /\ wh = <<>>
  /\ cg = CgIdle
  /\ \E record \in CoreInputs : ci = [CiIdle EXCEPT !.record = record]

\* is_core_info_complete(record) is called.
CoreCheck ==
  /\ ~ci.checked
  /\ ci' = [ci EXCEPT !.checked = TRUE, !.complete = IsCoreInfoComplete(ci.record)]
  /\ UNCHANGED <<session, m_hist, ov, bus, ps, wh, cg>>

NextCore == CoreCheck

SpecCore == InitCore /\ [][NextCore]_vars

\* ---------------------------------------------------- webhook specification

MaxCallbacks == 2

\* Case rows after GP calls were placed: no call yet; one call initiated in
\* session 1; a failed lookup in session 1 and a call initiated in session
\* 2; a call initiated in each session.
WebhookCases ==
  { NewCase,
    [NewCase EXCEPT !.gp_call_audit = << AuditRow("initiated", 1) >>,
                    !.gp_call_status = "initiated"],
    [NewCase EXCEPT !.gp_call_audit = << AuditRow("lookup_failed", 0),
                                         AuditRow("initiated", 2) >>,
                    !.gp_call_status = "initiated"],
    [NewCase EXCEPT !.gp_call_audit = << AuditRow("initiated", 1),
                                         AuditRow("initiated", 2) >>,
                    !.gp_call_status = "initiated"] }

\* call_status values of the post-call payload.
WebhookStatuses == CallStatuses \cup {"no-answer"}

InitWebhook ==
  /\ DUMMY_MODE = FALSE
  /\ db \in WebhookCases
  /\ ses = SessionLocals
  /\ pc = [main |-> "idle", loop |-> "none", stt |-> "none"]
  /\ tasks = [s \in Sessions |-> [k \in Kinds |-> NoTask]]
  /\ started = [s \in Sessions |-> [k \in Kinds |-> 0]]
  /\ hist = NoHistory
  /\ calls = [deliveries |-> 0, rest |-> 0, webhooks |-> 0]
  /\ m_hist = <<>>
  /\ ov = OvIdle
  /\ bus = BusIdle
  /\ ps = PsIdle
  /\ ci = CiIdle
  /\ wh = <<>>
  /\ cg = CgIdle

\* One delivery of the post-call webhook.
WhPostCall(conversation_id, call_status) ==
  /\ Len(wh) < MaxCallbacks
  /\ Becomes(elevenlabs_post_call(World, conversation_id, call_status))
  /\ wh' = Append(wh, [conversation_id |-> conversation_id,
                       call_status |-> call_status,
                       response |-> PostCallResponse(db, conversation_id)])
  /\ UNCHANGED <<DUMMY_MODE, pc, calls, m_hist, ov, bus, ps, ci, cg>>

NextWebhook ==
  \E c \in 0 .. MaxSessions, st \in WebhookStatuses : WhPostCall(c, st)

SpecWebhook == InitWebhook /\ [][NextWebhook]_vars

\* ------------------------------------------------------- open specification

\* Values of cases.nemsis_data: the dump of a record, a dump that was cut
\* short, and NULL.
PersistedNemsisData ==
  { model_dump_json(NEMSISRecord),
    model_dump_json(_dummy_extract(<<"core">>)),
    <<"cut short", _dummy_extract(<<"core">>)>>,
    <<"null", NEMSISRecord>> }

\* Case rows a session can be opened on.
PersistedCases ==
  { [NewCase EXCEPT !.nemsis_data = n, !.full_transcript = t,
                    !.core_info_complete = c, !.gp_call_status = g] :
      n \in PersistedNemsisData,
      t \in {<<>>, <<"core">>, <<"core", "gp">>, <<"iv">>},
      c \in {0, 1},
      g \in {None, "", "initiated"} }

InitOpen ==
  /\ DUMMY_MODE = FALSE
  /\ db \in PersistedCases
  /\ ses = SessionLocals
  /\ pc = [main |-> "idle", loop |-> "none", stt |-> "none"]
  /\ tasks = [s \in Sessions |-> [k \in Kinds |-> NoTask]]
  /\ started = [s \in Sessions |-> [k \in Kinds |-> 0]]
  /\ hist = NoHistory
  /\ calls = [deliveries |-> 0, rest |-> 0, webhooks |-> 0]
  /\ m_hist = <<>>
  /\ ov = OvIdle
  /\ bus = BusIdle
  /\ ps = PsIdle
  /\ ci = CiIdle
  /\ wh = <<>>
  /\ cg = CgIdle

NextOpen == Open

SpecOpen == InitOpen /\ [][NextOpen]_vars

\* --------------------------------------------------- teardown specification

\* The first session of a case after one pass of the extraction loop over
\* text (committed, not yet flushed) that the language model answered
\* with answer: the record is persisted, the actions whose gates passed
\* are dispatched, the lock is released; partial arrived afterwards.
DispatchedPass(text, partial, answer) ==
  LET W0 == [ses |-> [SessionLocals EXCEPT
                        !.sess = 1,
                        !.pending_committed = text,
                        !.pending_sentence_count = _count_sentence_endings(text),
                        !.extraction_lock = "loop"],
             db |-> NewCase,
             tasks |-> [s \in Sessions |-> [k \in Kinds |-> NoTask]],
             started |-> [s \in Sessions |-> [k \in Kinds |-> 0]],
             hist |-> [NoHistory EXCEPT !.committed = text]]
      W1 == EmitNemsis(PersistNemsis(Extracted(W0, text, answer)))
      W2 == IF IsCoreInfoComplete(W1.ses.current_nemsis)
            THEN Spawn(Emit(PersistCoreInfoComplete(
                              [W1 EXCEPT !.hist.ready["loop"] = @ \cup {"medical_db"},
                                         !.ses.core_triggered = TRUE]),
                            "core_info_complete"),
                       "medical_db")
            ELSE W1
  IN [GpDispatch(W2, "loop") EXCEPT !.ses.extraction_lock = "free",
                                    !.hist.failed = FALSE,
                                    !.ses.current_partial = partial]

\* An open session with dispatched work that has not started to run.
InitTeardown ==
  /\ DUMMY_MODE = FALSE
  /\ \E text \in {<<"core">>, <<"core", "gp">>} :
     \E partial \in {<<>>, <<"gp">>} :
     \E answer \in LlmAnswers(text) :
       LET W == DispatchedPass(text, partial, answer)
       IN /\ Len(text) + Len(partial) <= MaxDeliveries
          /\ W.tasks[1]["medical_db"].pc = "start"
          /\ ses = W.ses
          /\ db = W.db
          /\ tasks = W.tasks
          /\ started = W.started
          /\ hist = W.hist
          /\ calls = [deliveries |-> Len(text) + Len(partial), rest |-> 0, webhooks |-> 0]
  /\ pc = [main |-> "recv", loop |-> "wait", stt |-> "listen"]
  /\ m_hist = <<>>
  /\ ov = OvIdle
  /\ bus = BusIdle
  /\ ps = PsIdle
  /\ ci = CiIdle
  /\ wh = <<>>
  /\ cg = CgIdle

\* The finally block of stream_endpoint and the background tasks.
NextTeardown ==
  \/ Close
  \/ StopStt
  \/ FinalFlush
  \/ FinalExtract
  \/ MarkCompleted
  \/ \E s \in Sessions : RunMedicalDb(s)
  \/ \E s \in Sessions : GpCallResolve(s)
  \/ \E s \in Sessions : GpCallPlace(s)
  \/ \E s \in Sessions : GpCallUpdateCase(s)
  \/ \E s \in Sessions : GpDeliverDoc(s)

SpecTeardown == InitTeardown /\ [][NextTeardown]_vars

\* The event loop runs every task that is ready, and each external call of
\* a task returns or raises (httpx timeouts, voice_agent.py and
\* gp_lookup.py catch their errors): a task that can step does step.
TaskFairness ==
  \A s \in Sessions :
    /\ WF_vars(RunMedicalDb(s))
    /\ WF_vars(GpCallResolve(s))
    /\ WF_vars(GpCallPlace(s))
    /\ WF_vars(GpCallUpdateCase(s))
    /\ WF_vars(GpDeliverDoc(s))

SpecTeardownFair == SpecTeardown /\ TaskFairness

\* ---------------------------------------------------- call_gp specification

\* What call_gp can be given for gp_name and gp_phone, and for case_id.
GpNames == {None, "", "Dr Jones"}

GpPhoneArgs == {None, ""} \cup GpPhones

CaseIdArgs == {None, "case-A"}

\* A call_gp without its precondition check.
call_gp_resolve_unchecked(gp_name, gp_phone, lookup) ==
  IF Truthy(gp_phone) THEN [next |-> "place", lookups |-> 0]
  ELSE [next |-> IF lookup = "found" THEN "place" ELSE "lookup_failed",
        lookups |-> 1]

\* call_gp, steps 1 and 2 (gp_caller.py:49-88): what it does next and how
\* many times it has called lookup_gp_phone.  lookup is what a lookup
\* answers.
call_gp_resolve(gp_name, gp_phone, lookup) ==
  IF ~Truthy(gp_name) /\ ~Truthy(gp_phone)
  THEN [next |-> "return", lookups |-> 0]
  ELSE IF Truthy(gp_phone)
  THEN [next |-> "place", lookups |-> 0]
  ELSE [next |-> IF lookup = "found" THEN "place" ELSE "lookup_failed",
        lookups |-> 1]

\* _log_audit (gp_caller.py:154-190): the INSERT, or an error that is
\* logged and swallowed.
_log_audit(d, logged, outcome, conversation_id) ==
  IF logged
  THEN [d EXCEPT !.gp_call_audit = Append(@, AuditRow(outcome, conversation_id))]
  ELSE d

InitCallGp ==
  /\ DUMMY_MODE = FALSE
  /\ db \in WebhookCases
  /\ ses = SessionLocals
  /\ pc = [main |-> "idle", loop |-> "none", stt |-> "none"]
  /\ tasks = [s \in Sessions |-> [k \in Kinds |-> NoTask]]
  /\ started = [s \in Sessions |-> [k \in Kinds |-> 0]]
  /\ hist = NoHistory
  /\ calls = [deliveries |-> 0, rest |-> 0, webhooks |-> 0]
  /\ m_hist = <<>>
  /\ ov = OvIdle
  /\ bus = BusIdle
  /\ ps = PsIdle
  /\ ci = CiIdle
  /\ wh = <<>>
  /\ cg = CgIdle

\* call_gp up to its first return or to the await of place_gp_call
\* (gp_caller.py:49-90).
CallGp(gp_name, gp_phone, case_id) ==
  /\ cg.pc = "idle"
  /\ \E lookup \in {"found", "not_found"}, logged \in BOOLEAN :
       LET step == call_gp_resolve(gp_name, gp_phone, lookup)
           called == [cg EXCEPT !.gp_name = gp_name, !.gp_phone = gp_phone,
                                !.case_id = case_id, !.lookups = step.lookups]
       IN CASE step.next = "return" ->
                 /\ cg' = [called EXCEPT !.pc = "returned",
                                         !.result = "No GP contact available"]
                 /\ db' = db
            [] step.next = "lookup_failed" ->
                 /\ cg' = [called EXCEPT !.pc = "returned",
                                         !.result = "Could not resolve GP phone number"]
                 /\ db' = _log_audit(db, logged, "lookup_failed", 0)
            [] step.next = "place" ->
                 /\ cg' = [called EXCEPT !.pc = "place"]
                 /\ db' = db
  /\ UNCHANGED <<DUMMY_MODE, ses, pc, tasks, started, hist, calls,
                 m_hist, ov, bus, ps, ci, wh>>

\* place_gp_call answers and the audit row is written (gp_caller.py:92-112).
\* The conversation id of the call is MaxSessions + 1, an id no session's
\* call has.
CallGpPlace ==
  /\ cg.pc = "place"
  /\ \E status \in {"initiated", "error"}, logged \in BOOLEAN :
       /\ cg' = [cg EXCEPT !.pc = "update", !.placed = @ + 1, !.outcome = status]
       /\ db' = _log_audit(db, logged, status,
                           IF status = "initiated" THEN MaxSessions + 1 ELSE 0)
  /\ UNCHANGED <<DUMMY_MODE, ses, pc, tasks, started, hist, calls,
                 m_hist, ov, bus, ps, ci, wh>>

\* "if case_id:" the UPDATE of cases.gp_call_status; the status string is
\* returned (gp_caller.py:114-151).
CallGpUpdateCase ==
  /\ cg.pc = "update"
  /\ db' = IF Truthy(cg.case_id) THEN [db EXCEPT !.gp_call_status = cg.outcome]
           ELSE db
  /\ cg' = [cg EXCEPT !.pc = "returned", !.result = cg.outcome]
  /\ UNCHANGED <<DUMMY_MODE, ses, pc, tasks, started, hist, calls,
                 m_hist, ov, bus, ps, ci, wh>>

NextCallGp ==
  \/ \E gp_name \in GpNames, gp_phone \in GpPhoneArgs, case_id \in CaseIdArgs :
       CallGp(gp_name, gp_phone, case_id)
  \/ CallGpPlace
  \/ CallGpUpdateCase

SpecCallGp == InitCallGp /\ [][NextCallGp]_vars

\* ------------------------------------------------------- loop specification

\* One case with its sessions, the transcript source and the extraction
\* loop; the background tasks, the webhook and the REST calls are left out
\* (none of them reads or writes what the loop reads).
NextLoop ==
  \/ Open
  \/ \E text \in Utterances : OnPartial(text)
  \/ OnPartialSent
  \/ \E text \in Utterances \cup {<<>>} : OnCommitted(text)
  \/ FlushInsert
  \/ FlushUpdate
  \/ LoopWake
  \/ LoopExtract
  \/ LoopPersist
  \/ LoopCoreDb
  \/ Close
  \/ StopStt
  \/ FinalFlush
  \/ FinalExtract
  \/ MarkCompleted

SpecLoop == Init /\ [][NextLoop]_vars

\* The extraction task is scheduled: asyncio.wait returns after
\* MAX_EXTRACTION_INTERVAL at the latest (stream.py:219-226), the extractor
\* returns or raises, and the database calls return.
LoopFairness ==
  /\ WF_vars(LoopWake)
  /\ WF_vars(LoopExtract)
  /\ WF_vars(LoopPersist)
  /\ WF_vars(LoopCoreDb)

SpecLoopFair == SpecLoop /\ LoopFairness

\* --------------------------------------------------- pipeline specification

\* One case with its sessions, the transcript source, the extraction loop
\* and the background tasks, with the events sent to the client recorded.
InitPipeline ==
  /\ DUMMY_MODE \in BOOLEAN
  /\ db = NewCase
  /\ ses = SessionLocals
  /\ pc = [main |-> "idle", loop |-> "none", stt |-> "none"]
  /\ tasks = [s \in Sessions |-> [k \in Kinds |-> NoTask]]
  /\ started = [s \in Sessions |-> [k \in Kinds |-> 0]]
  /\ hist = [NoHistory EXCEPT !.observed = TRUE]
  /\ calls = [deliveries |-> 0, rest |-> 0, webhooks |-> 0]
  /\ m_hist = <<>>
  /\ ov = OvIdle
  /\ bus = BusIdle
  /\ ps = PsIdle
  /\ ci = CiIdle
  /\ wh = <<>>
  /\ cg = CgIdle

NextPipeline ==
  \/ Open
  \/ \E text \in Utterances : OnPartial(text)
  \/ OnPartialSent
  \/ \E text \in Utterances \cup {<<>>} : OnCommitted(text)
  \/ FlushInsert
  \/ FlushUpdate
  \/ LoopWake
  \/ LoopExtract
  \/ LoopPersist
  \/ LoopCoreDb
  \/ Close
  \/ StopStt
  \/ FinalFlush
  \/ FinalExtract
  \/ MarkCompleted
  \/ \E s \in Sessions : RunMedicalDb(s)
  \/ \E s \in Sessions : GpCallResolve(s)
  \/ \E s \in Sessions : GpCallPlace(s)
  \/ \E s \in Sessions : GpCallUpdateCase(s)
  \/ \E s \in Sessions : GpDeliverDoc(s)

SpecPipeline == InitPipeline /\ [][NextPipeline]_vars

\* ------------------------------------------------------------------ claims

C3_SessionRecordKeepsFacts ==
  [][ses'.sess = ses.sess => NoFactLost(ses.current_nemsis, ses'.current_nemsis)]_vars

\* C4: along a chain of merges, a scalar that is non-null in one record of
\* the chain is non-null in every later one, and a list item of one record
\* is in the list of every later one.
C4_MergeMonotone ==
  \A i, j \in DOMAIN m_hist :
    i <= j => NoFactLost(m_hist[i].merged, m_hist[j].merged)

\* A chain of MaxMerges merges in which a record of nulls and an empty list
\* was merged into a record that had both scalars and a list item.
C4_Witness ==
  /\ Len(m_hist) = MaxMerges + 1
  /\ \E i \in 1 .. MaxMerges :
       /\ m_hist[i].merged.patient.patient_name_last # None
       /\ m_hist[i].merged.patient.patient_age # None
       /\ m_hist[i].merged.procedures.procedures # <<>>
       /\ m_hist[i + 1].new = NEMSISRecord

\* The in-session flag that guards an action.
Flag(k) == IF k = "medical_db" THEN ses.core_triggered ELSE ses.gp_call_triggered

\* C5: in the second session of a case, an action that the first session
\* started has its flag true and is not started again, whatever became of
\* the first session's call.
C5_ReopenDoesNotRestart ==
  \A k \in Kinds :
    (ses.sess = 2 /\ started[1][k] >= 1) => (Flag(k) /\ started[2][k] = 0)

\* C6: no step makes a flag read false after it read true: the persisted
\* core_info_complete column, the truth value of the persisted
\* gp_call_status column, and, within a session, core_triggered and
\* gp_call_triggered.
C6_FlagsNeverReset ==
  [][ /\ BoolOfInt(db.core_info_complete) => BoolOfInt(db'.core_info_complete)
      /\ Truthy(db.gp_call_status) => Truthy(db'.gp_call_status)
      /\ ses'.sess = ses.sess =>
           /\ ses.core_triggered => ses'.core_triggered
           /\ ses.gp_call_triggered => ses'.gp_call_triggered ]_vars

\* C7: the write that ends close sets the status to completed when the
\* status is active at that moment and leaves every other status as it is.
C7_CompletedOnlyIfActive ==
  [][ (pc.main = "mark" /\ pc'.main = "idle") =>
        db'.status = (IF db.status = "active" THEN "completed" ELSE db.status) ]_vars

\* The first session was closed after the REST update had archived the
\* case: the write matched no row and the case is still archived.
C7_Witness ==
  /\ ses.sess = 1
  /\ pc.main = "idle"
  /\ calls.rest = 1
  /\ hist.rowcount = 0
  /\ db.status = "archived"

\* C8: the final flush of close leaves the pending buffer empty, and the
\* text it found in the pending buffer and the partial is the last row of
\* transcripts and the end of the persisted full transcript.
C8_FinalFlushPersistsBuffers ==
  [][ (pc.main = "final_flush" /\ pc'.main # "final_flush") =>
        LET text == ses.pending_committed \o ses.current_partial
        IN /\ ses'.pending_committed = <<>>
           /\ text # <<>> =>
                /\ db'.transcripts # <<>>
                /\ db'.transcripts[Len(db'.transcripts)] = text
                /\ IsSuffix(text, db'.full_transcript)
                /\ db'.full_transcript = ses'.accumulated_transcript ]_vars

\* The final flush has run on a pending committed text followed by a
\* partial: both are in the last row and in the persisted transcript.
C8_Witness ==
  /\ pc.main \in {"final_extract", "mark"}
  /\ ses.current_partial # <<>>
  /\ db.transcripts # <<>>
  /\ Len(db.transcripts[Len(db.transcripts)]) >= 2
  /\ IsSuffix(ses.current_partial, db.transcripts[Len(db.transcripts)])
  /\ IsSuffix(db.transcripts[Len(db.transcripts)], db.full_transcript)

C10_CommittedPersistedOnce ==
  (pc.main = "idle" /\ ses.sess >= 1) =>
    /\ db.full_transcript = hist.committed
    /\ Flatten(db.transcripts) = hist.committed

\* C11: every value written to cases.full_transcript has the value it
\* replaces as a prefix, also when two sessions of the case are open at the
\* same time.
C11_FullTranscriptAppendOnly ==
  [][IsPrefix(ov.db.full_transcript, ov'.db.full_transcript)]_vars

\* C12: a publish for case c appends the event, with case_id c, to the
\* queue of every subscriber of c and of every subscriber of all cases,
\* and leaves every other queue as it was.
C12_FanoutIsolation ==
  [][ bus'.published = bus.published + 1 =>
        \E c \in CaseIds :
          \A q \in Queues :
            bus'.queues[q] =
              IF bus.subscribed[q] \in {c, "*"}
              THEN Append(bus.queues[q], [case_id |-> c, n |-> bus'.published])
              ELSE bus.queues[q] ]_vars

\* A publish for case-A has reached a subscriber of case-A and a subscriber
\* of all cases, and not a subscriber of case-B.
C12_Witness ==
  \E qa, qb, qg \in Queues :
    /\ bus.subscribed[qa] = "case-A"
    /\ bus.subscribed[qb] = "case-B"
    /\ bus.subscribed[qg] = "*"
    /\ bus.queues[qa] # <<>> /\ bus.queues[qa][1].case_id = "case-A"
    /\ bus.queues[qg] = bus.queues[qa]
    /\ bus.queues[qb] = <<>>

\* C14: once a queue of the distributed bus was unsubscribed, the bus holds
\* no subscription for it, the queue holds no event published afterwards,
\* and no subscription made for it exists on the service, whether or not
\* the deletion succeeded.
C14_UnsubscribeReleases ==
  \A q \in Queues :
    ps.until[q] # -1 =>
      /\ q \notin DOMAIN ps._subscriptions
      /\ \A i \in 1..Len(ps.queues[q]) : ps.queues[q][i].n <= ps.until[q]
      /\ ~\E sub \in ps.server : sub.path = q

\* The events a subscription filtered on the service delivers to a queue
\* subscribed to one case: those published for that case while the queue
\* was subscribed.
RECURSIVE EventsFor(_, _, _, _)
EventsFor(sent, case_id, from, to) ==
  IF from > to THEN <<>>
  ELSE (IF sent[from] = case_id THEN << [case_id |-> case_id, n |-> from] >> ELSE <<>>)
       \o EventsFor(sent, case_id, from + 1, to)

\* C15: a queue of the distributed bus that was subscribed to one case
\* holds exactly the events published for that case while it was
\* subscribed, whether the subscription was created with its filter or
\* without it.
C15_FallbackFiltersAlike ==
  \A q \in Queues :
    ps.subscribed[q] \in CaseIds =>
      ps.queues[q] =
        EventsFor(ps.sent, ps.subscribed[q], ps.since[q] + 1,
                  IF ps.until[q] = -1 THEN Len(ps.sent) ELSE ps.until[q])

\* A queue subscribed to case-A without the service's filter, and one with
\* it, after an event for case-A and an event for case-B: each holds the
\* event for case-A only.
C15_Witness ==
  \E q1, q2 \in DOMAIN ps._subscriptions :
    /\ ps.subscribed[q1] = "case-A" /\ ps.subscribed[q2] = "case-A"
    /\ ps._subscriptions[q1].filter_expr = "case-A"
    /\ ps._subscriptions[q2].filter_expr = None
    /\ ps.since[q1] = 0 /\ ps.since[q2] = 0
    /\ "case-A" \in SeqToSet(ps.sent) /\ "case-B" \in SeqToSet(ps.sent)
    /\ Len(ps.queues[q1]) = 1 /\ ps.queues[q1] = ps.queues[q2]

\* C16: when close is over, every state change the session made has been
\* published through the event bus: a persisted segment as
\* transcript_committed, a persisted record as nemsis_update, the
\* core_info_complete transition, and a persisted downstream result as its
\* completion event.
C16_StateChangesPublished ==
  (pc.main = "idle" /\ ses.sess >= 1) =>
    /\ db.transcripts # <<>> => "transcript_committed" \in hist.published
    /\ db.nemsis_data # NewCase.nemsis_data => "nemsis_update" \in hist.published
    /\ db.core_info_complete = 1 => "core_info_complete" \in hist.published
    /\ db.medical_db_response # None => "medical_db_complete" \in hist.published
    /\ db.gp_response # None => "gp_call_complete" \in hist.published

Present(v) == v \notin {None, ""}

\* C18: is_core_info_complete says true exactly when a first or a last
\* name, an address, an age and a gender are all present.
C18_CoreInfoCompleteIff ==
  ci.checked =>
    LET p == ci.record.patient
    IN ci.complete <=>
         /\ Present(p.patient_name_first) \/ Present(p.patient_name_last)
         /\ Present(p.patient_address)
         /\ Present(p.patient_age)
         /\ Present(p.patient_gender)

\* A record with a last name only, an address, an age and a gender was
\* found complete.
C18_Witness ==
  /\ ci.checked /\ ci.complete
  /\ ci.record.patient.patient_name_first = None
  /\ ci.record.patient.patient_name_last = "Smith"

NoDuplicates(list) ==
  \A i, j \in DOMAIN list : list[i] = list[j] => i = j

\* The index of the first appearance of an item in a list.
FirstIndex(list, item) ==
  CHOOSE i \in DOMAIN list :
    list[i] = item /\ \A j \in DOMAIN list : list[j] = item => i <= j

\* merged is the old list followed by the items of the new list that the old
\* one does not hold, each once, in the order of their first appearance.
IsUnionByFirstAppearance(old, new, merged) ==
  /\ IsPrefix(old, merged)
  /\ LET rest == SubSeq(merged, Len(old) + 1, Len(merged))
     IN /\ SeqToSet(rest) = SeqToSet(new) \ SeqToSet(old)
        /\ NoDuplicates(rest)
        /\ \A a, b \in DOMAIN rest :
             a < b => FirstIndex(new, rest[a]) < FirstIndex(new, rest[b])

C22_FailedPassChangesNothing ==
  [][ LET loop_extract == pc.loop = "extract" /\ pc'.loop = "persist"
          loop_rest == pc.loop \in {"persist", "core_db"}
                         /\ pc'.loop \in {"core_db", "wait"}
          final_pass == pc.main = "final_extract" /\ pc'.main = "mark"
      IN (hist.failed \/ hist'.failed) =>
           /\ (loop_extract \/ final_pass) => ses'.current_nemsis = ses.current_nemsis
           /\ (loop_extract \/ loop_rest \/ final_pass) => started' = started ]_vars

\* C23: within a session a flag that is true stays true, and no action is
\* started a second time, whatever became of its first call.
C23_FireOnceNoRetry ==
  [][ /\ \A s \in Sessions : \A k \in Kinds : started'[s][k] <= 1
      /\ ses'.sess = ses.sess =>
           /\ ses.core_triggered => ses'.core_triggered
           /\ ses.gp_call_triggered => ses'.gp_call_triggered ]_vars

\* The medical lookup of the session was started once and failed, and both
\* the loop and the final pass found the record ready.
C23_Witness ==
  \E s \in Sessions :
    /\ ses.sess = s
    /\ pc.main = "idle"
    /\ started[s].medical_db = 1
    /\ tasks[s].medical_db.pc = "done"
    /\ db.medical_db_response = None
    /\ ses.core_triggered
    /\ "medical_db" \in hist.ready["loop"]
    /\ "medical_db" \in hist.ready["final"]

\* C24: the audit table holds one row for each GP call task that has got
\* past call_gp (or has ended), and none for the others.
C24_OneAuditRowPerAttempt ==
  Len(db.gp_call_audit) =
    Cardinality({s \in Sessions : tasks[s].gp_call.pc \in {"status", "doc", "done"}})

\* C25: a delivery whose conversation id was already delivered, and matched
\* an audit row then, changes neither the audit rows nor the case's
\* gp_call_status.
C25_SecondCallbackChangesNothing ==
  [][ Len(wh') = Len(wh) + 1 =>
        LET conversation_id == wh'[Len(wh')].conversation_id
        IN (\E i \in DOMAIN wh : /\ wh[i].conversation_id = conversation_id
                                 /\ wh[i].response.message = None)
             => /\ db'.gp_call_audit = db.gp_call_audit
                /\ db'.gp_call_status = db.gp_call_status ]_vars

\* C26: a delivery that carries no conversation id, or one that no audit row
\* holds, changes no row, publishes nothing and is answered without an
\* error.
C26_UnknownCallbackIsNoOp ==
  [][ Len(wh') = Len(wh) + 1 =>
        LET delivery == wh'[Len(wh')]
        IN (\/ delivery.conversation_id = 0
            \/ ~\E i \in DOMAIN db.gp_call_audit :
                  db.gp_call_audit[i].conversation_id = delivery.conversation_id)
             => /\ db' = db
                /\ hist'.published = hist.published
                /\ delivery.response.status # "error" ]_vars

\* A case with a call initiated in session 1 got a delivery without a
\* conversation id and one for conversation 2, and is as it was.
C26_Witness ==
  /\ Len(wh) = 2
  /\ wh[1].conversation_id = 0
  /\ wh[2].conversation_id = 2
  /\ wh[2].call_status = "completed"
  /\ db.gp_call_audit = << AuditRow("initiated", 1) >>
  /\ db.gp_call_status = "initiated"
  /\ hist.published = {}

\* C27: a session opened on a case whose nemsis_data is no dump of a record
\* starts with the empty record, with the persisted transcript and flags,
\* and with its transcript source and extraction loop running.
C27_MalformedRecordOpensEmpty ==
  [][ (pc.main = "idle" /\ pc'.main # "idle" /\ db.nemsis_data[1] # "json") =>
        /\ ses'.current_nemsis = NEMSISRecord
        /\ ses'.accumulated_transcript = db.full_transcript
        /\ ses'.core_triggered = (db.core_info_complete = 1)
        /\ ses'.gp_call_triggered = (db.gp_call_status \notin {None, ""})
        /\ pc' = [main |-> "recv", loop |-> "wait", stt |-> "listen"] ]_vars

\* A session is open on a case whose record was cut short, whose transcript
\* is not empty and whose flags are set.
C27_Witness ==
  /\ pc.main = "recv"
  /\ db.nemsis_data[1] = "cut short"
  /\ ses.current_nemsis = NEMSISRecord
  /\ ses.accumulated_transcript = <<"core", "gp">>
  /\ ses.core_triggered /\ ses.gp_call_triggered
Pending(task) == task.pc \notin {"none", "done"}

\* C29: the session does not wait for dispatched work.  The extraction
\* lock is held only by a pass that is under way (never by something that
\* waits for a task); the step that dispatches a task releases the lock
\* before the task can run; a task's steps leave the session's locals and
\* positions alone; and while a task is pending, the transcript callbacks
\* and every step of an extraction pass can still be taken.
C29_SessionNotBlockedByDispatch ==
  /\ [](ses.extraction_lock # "free" =>
          \/ pc.loop \in {"extract", "persist", "core_db"}
          \/ pc.main = "final_extract")
  /\ [](\A s \in Sessions : \A k \in Kinds :
          Pending(tasks[s][k]) =>
            /\ (pc.stt = "listen" /\ calls.deliveries < MaxDeliveries) =>
                  /\ ENABLED OnPartial(<<"iv">>)
                  /\ ENABLED OnCommitted(<<"iv">>)
            /\ pc.loop = "wait" => ENABLED LoopWake
            /\ pc.loop = "extract" => ENABLED LoopExtract
            /\ pc.loop = "persist" => ENABLED LoopPersist
            /\ pc.loop = "core_db" => ENABLED LoopCoreDb)
  /\ [][ \A s \in Sessions : \A k \in Kinds :
           /\ (~Pending(tasks[s][k]) /\ tasks'[s][k].pc = "start")
                => ses'.extraction_lock = "free"
           /\ (Pending(tasks[s][k]) /\ tasks'[s][k].pc # tasks[s][k].pc)
                => (ses' = ses /\ pc' = pc) ]_vars

\* The medical lookup dispatched by a pass over the first utterance is
\* still pending when a second utterance has been committed and a further
\* pass has put the GP's name into the record.
C29_Witness ==
  /\ ses.sess = 1
  /\ tasks[1]["medical_db"].pc = "start"
  /\ tasks[1]["medical_db"].snapshot.patient.gp_name = None
  /\ ses.current_nemsis.patient.gp_name = "Dr Jones"
  /\ hist.committed = <<"core", "gp">>
  /\ pc.loop = "wait"
  /\ pc.main = "recv"
  /\ ses.extraction_lock = "free"

ExtractionsInFlight ==
  (IF pc.loop = "extract" THEN 1 ELSE 0)
    + (IF pc.main = "final_extract" THEN 1 ELSE 0)

\* C31: at most one call of the extractor is in flight in a session; the
\* loop's call is made under the lock, and the final pass makes its call
\* under the lock only when the loop's task has ended.
C31_OneExtractionInFlight ==
  /\ ExtractionsInFlight <= 1
  /\ pc.loop = "extract" => ses.extraction_lock = "loop"
  /\ pc.main = "final_extract" =>
        (ses.extraction_lock = "final" /\ pc.loop = "done")

\* The final pass's call is in flight over text that no pass of the loop
\* got through: the loop was stopped before it finished one.
C31_Witness ==
  /\ ~DUMMY_MODE
  /\ pc.main = "final_extract"
  /\ pc.loop = "done"
  /\ ses.last_extracted_word_count = 0
  /\ ses.accumulated_transcript = <<"core", "gp">>

\* The session is open and the full text has more words than the last
\* pass extracted (stream.py:241-248).
MoreWords ==
  /\ pc.main = "recv"
  /\ WordCount(FullText(ses.accumulated_transcript, ses.pending_committed,
                        ses.current_partial)) > ses.last_extracted_word_count

NewlySent(e) == hist'.sent[e] > hist.sent[e]

ChunkEndsInPunctuation(c) ==
  CASE c = "core" -> TRUE
    [] c = "gp" -> FALSE
    [] c = "iv" -> TRUE

\* C35: a call of on_committed starts a flush exactly when the pending
\* buffer, with the new text appended, holds at least two sentence-terminal
\* punctuation marks or ends in one; and when a flush has returned the
\* pending buffer is empty and its sentence count is 0.
C35_FlushAtSentenceBoundary ==
  [][ /\ (pc.stt = "listen" /\ calls'.deliveries = calls.deliveries + 1
          /\ pc'.stt # "partial_send") =>
           LET pending == ses'.pending_committed
           IN (pc'.stt = "flush_insert") <=>
                /\ pending # <<>>
                /\ \/ _count_sentence_endings(pending) >= 2
                   \/ ChunkEndsInPunctuation(pending[Len(pending)])
      /\ (pc.stt = "flush_update" /\ pc'.stt = "listen") =>
           /\ ses'.pending_committed = <<>>
           /\ ses'.pending_sentence_count = 0 ]_vars

\* C36: the record a background task works on is the session's record as
\* it was when the task was created, and no later step (an extraction
\* pass, a merge, _infer_gp_details, the final pass, a new session) changes
\* it while the task exists.
C36_SnapshotNeverChanges ==
  [][ \A s \in Sessions : \A k \in Kinds :
        /\ (tasks[s][k].pc = "none" /\ tasks'[s][k].pc # "none") =>
             tasks'[s][k].snapshot = ses'.current_nemsis
        /\ tasks[s][k].pc # "none" =>
             tasks'[s][k].snapshot = tasks[s][k].snapshot ]_vars

\* The medical lookup of the first session has not run yet and the
\* session's record has since gained the GP's name, which the task's
\* record lacks.
C36_Witness ==
  /\ ses.sess = 1
  /\ tasks[1]["medical_db"].pc = "start"
  /\ IsCoreInfoComplete(tasks[1]["medical_db"].snapshot)
  /\ tasks[1]["medical_db"].snapshot.patient.gp_name = None
  /\ ses.current_nemsis.patient.gp_name = "Dr Jones"
  /\ tasks[1]["gp_call"].pc = "start"
  /\ tasks[1]["gp_call"].snapshot = ses.current_nemsis

InPass == pc.loop \in {"extract", "persist", "core_db"}

\* The word count of the text the pass in flight works on: full_text until
\* the extractor returns, last_extracted_word_count afterwards
\* (stream.py:239-255).
PassWords ==
  IF pc.loop = "extract" THEN WordCount(ses.full_text)
  ELSE ses.last_extracted_word_count

\* Text beyond the pass in flight, with no callback part-way through.
TextBeyondPass ==
  /\ pc.main = "recv"
  /\ InPass
  /\ pc.stt = "listen"
  /\ WordCount(FullText(ses.accumulated_transcript, ses.pending_committed,
                        ses.current_partial)) > PassWords

C40_RaceKeepsWebhookResult ==
  \A s \in Sessions :
    (/\ tasks[s]["gp_call"].pc \in {"doc", "done"}
     /\ \A t \in Sessions \ {s} : tasks[t]["gp_call"].pc = "none")
    => \A i \in DOMAIN db.gp_call_audit :
         (/\ db.gp_call_audit[i].conversation_id = s
          /\ db.gp_call_audit[i].transcript # None)
         => db.gp_call_status = db.gp_call_audit[i].outcome

====
